---- MODULE Spec2Model ----
\* Model of wgpu-sandbox2: GpuBuilder (src/src/gpu.rs), the App event loop
\* (src/src/app.rs) and TextureBuilder (src/src/graphics.rs).
EXTENDS Integers, Sequences, FiniteSets, TLC

VARIABLES
    \* ---- GpuBuilder (gpu.rs:4-10) and the values its build works on
    backends,        \* GpuBuilder.backends, a set of Backend
    device_type,     \* GpuBuilder.device_type
    present_mode,    \* GpuBuilder.present_mode
    features,        \* GpuBuilder.features, a set of feature flags
    limits,          \* GpuBuilder.limits
    argBackends,     \* history: the backends passed to with_backend so far
    argDevice,       \* history: the last value passed to with_device, or "none"
    enumerated,      \* the adapters instance.enumerate_adapters returned
    adapter,         \* the result of select_adapter (None or an adapter)
    gpuPc,           \* "builder" | "built" | "panicked"
    \* ---- Gpu (gpu.rs:131-136)
    surface_config,  \* Gpu.surface_config
    configured,      \* the configuration the surface was last configured with
    built_config,    \* history: surface_config as GpuBuilder::build made it
    \* ---- AppBuilder / App (app.rs:68-81, 170-178)
    esc,             \* AppBuilder.esc, copied into App.esc by build
    window,          \* the inner size of the window build created, or None
    dim,             \* AppBuilder.dim
    gpu_builder,     \* AppBuilder.gpu_builder
    egui,            \* whether the crate is compiled with feature "egui"
    appPc,           \* "builder" | "built" | "running" | "destroyed" | "panicked"
    control_flow,    \* winit ControlFlow: "Poll" | "Exit"
    received,        \* history: the events handed to the closure, in order
    trace,           \* history: the calls the loop made, in order
    \* ---- TextureBuilder / Texture (graphics.rs:97-105, 215-221)
    tb,              \* the TextureBuilder
    tex,             \* the Texture returned by build, or None
    created,         \* the descriptor device.create_texture was called with
    writes,          \* the queue.write_texture calls made, in order
    texPc            \* "builder" | "built"

gpuVars == <<backends, device_type, present_mode, features, limits,
             argBackends, argDevice, enumerated, adapter, gpuPc>>
surfVars == <<surface_config, configured, built_config>>
appVars == <<esc, window, dim, gpu_builder, egui, appPc, control_flow, received, trace>>
texVars == <<tb, tex, created, writes, texPc>>
vars == <<gpuVars, surfVars, appVars, texVars>>

None == [none |-> TRUE]

\* ---------------------------------------------------------------- bounds
MaxAdapters == 2     \* longest adapter enumeration explored
MaxEvents == 3       \* longest event sequence delivered to the closure
MaxData == 2         \* largest data length handed to with_data / upload_data

\* ---------------------------------------------------------------- domains
Backend == {"Vulkan", "Metal", "Dx12", "Gl", "BrowserWebGpu"}
PRIMARY == {"Vulkan", "Metal", "Dx12", "BrowserWebGpu"}
BackendArgs == {"Vulkan", "Gl"}
DeviceType == {"DiscreteGpu", "IntegratedGpu"}
PresentMode == {"Fifo", "Mailbox"}
FeatureArgs == {"TIMESTAMP_QUERY"}
LimitsArgs == {"downlevel_defaults"}
Sizes == {<<640, 360>>, <<1, 2>>}

Adapters == [device_type : DeviceType, backend : BackendArgs, surface_supported : BOOLEAN]

RECURSIVE SeqsUpTo(_, _)
SeqsUpTo(S, n) ==
    IF n = 0 THEN {<<>>}
    ELSE LET shorter == SeqsUpTo(S, n - 1)
         IN shorter \cup {Append(s, x) : s \in {t \in shorter : Len(t) = n - 1}, x \in S}

\* What instance.enumerate_adapters may answer.
AdapterLists == SeqsUpTo(Adapters, MaxAdapters)

\* ---------------------------------------------------------------- GpuBuilder
\* impl Default for GpuBuilder
GpuBuilder_default ==
    [backends |-> PRIMARY, device_type |-> "DiscreteGpu", present_mode |-> "Fifo",
     features |-> {}, limits |-> "default"]

\* The fields of the builder under construction, as one value.
SelfGpuBuilder ==
    [backends |-> backends, device_type |-> device_type, present_mode |-> present_mode,
     features |-> features, limits |-> limits]

with_backend(b) ==
    /\ gpuPc = "builder"
    /\ backends' = backends \cup {b}
    /\ argBackends' = argBackends \cup {b}
    /\ UNCHANGED <<device_type, present_mode, features, limits, argDevice,
                   enumerated, adapter, gpuPc, surfVars, appVars, texVars>>

with_device(d) ==
    /\ gpuPc = "builder"
    /\ device_type' = d
    /\ argDevice' = d
    /\ UNCHANGED <<backends, present_mode, features, limits, argBackends,
                   enumerated, adapter, gpuPc, surfVars, appVars, texVars>>

with_feature(f) ==
    /\ gpuPc = "builder"
    /\ features' = features \cup {f}
    /\ UNCHANGED <<backends, device_type, present_mode, limits, argBackends, argDevice,
                   enumerated, adapter, gpuPc, surfVars, appVars, texVars>>

with_limits(l) ==
    /\ gpuPc = "builder"
    /\ limits' = l
    /\ UNCHANGED <<backends, device_type, present_mode, features, argBackends, argDevice,
                   enumerated, adapter, gpuPc, surfVars, appVars, texVars>>

with_present_mode(p) ==
    /\ gpuPc = "builder"
    /\ present_mode' = p
    /\ UNCHANGED <<backends, device_type, features, limits, argBackends, argDevice,
                   enumerated, adapter, gpuPc, surfVars, appVars, texVars>>

\* The condition of the if in select_adapter's loop.
AdapterMatches(a, bks, dt) ==
    /\ a.device_type = dt
    /\ a.backend \in bks
    /\ a.surface_supported

\* Mutant: the scan keeps going and the last matching adapter wins.
RECURSIVE select_adapter_last(_, _, _)
select_adapter_last(bks, dt, ads) ==
    IF ads = <<>> THEN None
    ELSE IF AdapterMatches(ads[Len(ads)], bks, dt) THEN ads[Len(ads)]
    ELSE select_adapter_last(bks, dt, SubSeq(ads, 1, Len(ads) - 1))

\* GpuBuilder::select_adapter: the for loop over the enumerated adapters,
\* returning at the first match, None after the loop.
RECURSIVE select_adapter(_, _, _)
select_adapter(bks, dt, ads) ==
    IF ads = <<>> THEN None
    ELSE IF AdapterMatches(ads[1], bks, dt) THEN ads[1]
    ELSE select_adapter(bks, dt, Tail(ads))

\* ---------------------------------------------------------------- GpuBuilder::build
SrgbFormats == {"Bgra8UnormSrgb", "Rgba8UnormSrgb"}
is_srgb(f) == f \in SrgbFormats

\* What surface.get_capabilities may answer: the formats and alpha modes lists.
SurfaceCaps ==
    { [formats |-> <<"Bgra8Unorm", "Bgra8UnormSrgb">>, alpha_modes |-> <<"Opaque">>],
      [formats |-> <<"Rgba8Unorm">>, alpha_modes |-> <<"Auto", "Opaque">>] }

\* surface_caps.formats.iter().copied().find(|f| f.is_srgb()).unwrap_or(formats[0])
\* The position find stops at, 0 when no format is sRGB.
RECURSIVE FindSrgb(_, _)
FindSrgb(fs, i) ==
    IF i > Len(fs) THEN 0
    ELSE IF is_srgb(fs[i]) THEN i ELSE FindSrgb(fs, i + 1)

surface_format(caps) ==
    IF FindSrgb(caps.formats, 1) = 0 THEN caps.formats[1]
    ELSE caps.formats[FindSrgb(caps.formats, 1)]

\* The SurfaceConfiguration literal of GpuBuilder::build.
BuildSurfaceConfig(self, window_size, caps) ==
    [format |-> surface_format(caps),
     width |-> window_size[1],
     height |-> window_size[2],
     present_mode |-> self.present_mode,
     usage |-> "RENDER_ATTACHMENT",
     alpha_mode |-> caps.alpha_modes[1],
     view_formats |-> <<>>]

\* Whether GpuBuilder::build returns: select_adapter(..).unwrap() and
\* request_device(..).await.unwrap() both have a value to unwrap.
BuildReturns(self, ads, deviceOk) ==
    /\ select_adapter(self.backends, self.device_type, ads) # None
    /\ deviceOk

\* GpuBuilder::build, called directly on the builder under construction.
GpuBuilder_build(ads, window_size, caps, deviceOk) ==
    /\ gpuPc = "builder"
    /\ enumerated' = ads
    /\ adapter' = select_adapter(backends, device_type, ads)
    /\ IF BuildReturns(SelfGpuBuilder, ads, deviceOk)
       THEN /\ gpuPc' = "built"
            /\ surface_config' = BuildSurfaceConfig(SelfGpuBuilder, window_size, caps)
            /\ configured' = BuildSurfaceConfig(SelfGpuBuilder, window_size, caps)
            /\ built_config' = BuildSurfaceConfig(SelfGpuBuilder, window_size, caps)
       ELSE /\ gpuPc' = "panicked"
            /\ UNCHANGED surfVars
    /\ UNCHANGED <<backends, device_type, present_mode, features, limits,
                   argBackends, argDevice, appVars, texVars>>

\* Mutant: resize_surface stores the new size swapped.
resize_surface_swapped(cfg, new_size) ==
    [cfg EXCEPT !.width = new_size[2], !.height = new_size[1]]

\* Gpu::resize_surface: the two assignments; the configure call that follows
\* hands the result to the surface.
resize_surface(cfg, new_size) ==
    [cfg EXCEPT !.width = new_size[1], !.height = new_size[2]]

InitGpuVars ==
    /\ backends = GpuBuilder_default.backends
    /\ device_type = GpuBuilder_default.device_type
    /\ present_mode = GpuBuilder_default.present_mode
    /\ features = GpuBuilder_default.features
    /\ limits = GpuBuilder_default.limits
    /\ argBackends = {}
    /\ argDevice = "none"
    /\ enumerated = <<>>
    /\ adapter = None

InitSurfVars ==
    /\ surface_config = None
    /\ configured = None
    /\ built_config = None

InitTexIdle ==
    /\ tb = None
    /\ tex = None
    /\ created = None
    /\ writes = <<>>
    /\ texPc = "idle"

InitAppIdle ==
    /\ esc = TRUE
    /\ window = None
    /\ dim = <<640, 360>>
    /\ gpu_builder = GpuBuilder_default
    /\ egui = FALSE
    /\ appPc = "idle"
    /\ control_flow = "Poll"
    /\ received = <<>>
    /\ trace = <<>>

\* ---------------------------------------------------------------- SpecGpu
\* GpuBuilder::new() followed by setter calls and one build.
InitGpu ==
    /\ InitGpuVars
    /\ gpuPc = "builder"
    /\ InitSurfVars
    /\ InitAppIdle
    /\ InitTexIdle

NextGpu ==
    \/ \E b \in BackendArgs : with_backend(b)
    \/ \E d \in DeviceType : with_device(d)
    \/ \E f \in FeatureArgs : with_feature(f)
    \/ \E l \in LimitsArgs : with_limits(l)
    \/ \E p \in PresentMode : with_present_mode(p)
    \/ \E ads \in AdapterLists, ws \in Sizes, caps \in SurfaceCaps,
          deviceOk \in BOOLEAN :
            GpuBuilder_build(ads, ws, caps, deviceOk)

SpecGpu == InitGpu /\ [][NextGpu]_vars

\* ---------------------------------------------------------------- AppBuilder
with_gpu(g) ==
    /\ appPc = "builder"
    /\ gpu_builder' = g
    /\ UNCHANGED <<esc, window, dim, egui, appPc, control_flow, received, trace,
                   gpuVars, surfVars, texVars>>

with_dimension(widht, height) ==
    /\ appPc = "builder"
    /\ dim' = <<widht, height>>
    /\ UNCHANGED <<esc, window, gpu_builder, egui, appPc, control_flow, received, trace,
                   gpuVars, surfVars, texVars>>

with_esc(value) ==
    /\ appPc = "builder"
    /\ esc' = value
    /\ UNCHANGED <<window, dim, gpu_builder, egui, appPc, control_flow, received, trace,
                   gpuVars, surfVars, texVars>>

\* AppBuilder::build: the window is created (its inner size is what the window
\* system granted), then gpu_builder.build(&window) runs; App.esc is self.esc.
AppBuilder_build(ads, window_size, caps, deviceOk) ==
    /\ appPc = "builder"
    /\ window' = window_size
    /\ enumerated' = ads
    /\ adapter' = select_adapter(gpu_builder.backends, gpu_builder.device_type, ads)
    /\ IF BuildReturns(gpu_builder, ads, deviceOk)
       THEN /\ appPc' = "built"
            /\ surface_config' = BuildSurfaceConfig(gpu_builder, window_size, caps)
            /\ configured' = BuildSurfaceConfig(gpu_builder, window_size, caps)
            /\ built_config' = BuildSurfaceConfig(gpu_builder, window_size, caps)
       ELSE /\ appPc' = "panicked"
            /\ UNCHANGED surfVars
    /\ UNCHANGED <<esc, dim, gpu_builder, egui, control_flow, received, trace,
                   backends, device_type, present_mode, features, limits,
                   argBackends, argDevice, gpuPc, texVars>>

\* ---------------------------------------------------------------- App::run
\* One call made by run or by the event-loop closure while it handles the
\* n-th event it received (n = 0: before the loop starts).
Call(op, n, arg) == [op |-> op, n |-> n, arg |-> arg]

NoSize == <<0, 0>>
Ev(kind, key, state, size, acq, ret) ==
    [kind |-> kind, key |-> key, state |-> state, size |-> size, acq |-> acq, ret |-> ret]

CloseRequestedEv == Ev("CloseRequested", "none", "none", NoSize, "none", 0)
KeyboardInputEv(k, st) == Ev("KeyboardInput", k, st, NoSize, "none", 0)
ResizedEv(size) == Ev("Resized", "none", "none", size, "none", 0)
FocusedEv == Ev("Focused", "none", "none", NoSize, "none", 0)
MainEventsClearedEv == Ev("MainEventsCleared", "none", "none", NoSize, "none", 0)
\* acq: what get_current_texture answers; ret: how many command buffers the
\* user's render returns (0 also stands for None, which unwrap_or turns into vec![]).
RedrawRequestedEv(acq, ret) == Ev("RedrawRequested", "none", "none", NoSize, acq, ret)
LoopDestroyedEv == Ev("LoopDestroyed", "none", "none", NoSize, "none", 0)
ResumedEv == Ev("Resumed", "none", "none", NoSize, "none", 0)

WindowEventKinds == {"CloseRequested", "KeyboardInput", "Resized", "Focused"}
Keys == {"Escape", "A"}
ElementState == {"Pressed", "Released"}
\* The answers of get_current_texture and, when a frame was acquired, of render.
RedrawInputs == {<<"Ok", 0>>, <<"Ok", 1>>, <<"Outdated", 0>>, <<"Timeout", 0>>}

\* run, before the loop: T::create(&self.gpu).
run ==
    /\ appPc = "built"
    /\ appPc' = "running"
    /\ trace' = Append(trace, Call("create", 0, 0))
    /\ UNCHANGED <<esc, window, dim, gpu_builder, egui, control_flow, received,
                   gpuVars, surfVars, texVars>>

\* Mutant: Escape exits whatever App.esc says.
set_exit_called_any_esc(ev, escFlag) ==
    \/ ev.kind = "CloseRequested"
    \/ ev.kind = "KeyboardInput" /\ ev.key = "Escape" /\ ev.state = "Pressed"

\* The inner match of the WindowEvent arm: whether control_flow.set_exit() runs.
set_exit_called(ev, escFlag) ==
    \/ ev.kind = "CloseRequested"
    \/ ev.kind = "KeyboardInput" /\ ev.key = "Escape" /\ ev.state = "Pressed" /\ escFlag

\* Mutant: instance.events is called before the loop's own match.
WindowEventCalls_events_first(ev, n, escFlag, eguiFlag) ==
    <<Call("events", n, 0)>>
    \o (IF set_exit_called(ev, escFlag) THEN <<Call("set_exit", n, 0)>> ELSE <<>>)
    \o (IF ev.kind = "Resized" THEN <<Call("resize_surface", n, 0)>> ELSE <<>>)
    \o (IF eguiFlag THEN <<Call("handle_input", n, 0)>> ELSE <<>>)

\* The calls of the Event::WindowEvent arm, in program order.
WindowEventCalls(ev, n, escFlag, eguiFlag) ==
    (IF set_exit_called(ev, escFlag) THEN <<Call("set_exit", n, 0)>> ELSE <<>>)
    \o (IF ev.kind = "Resized" THEN <<Call("resize_surface", n, 0)>> ELSE <<>>)
    \o <<Call("events", n, 0)>>
    \o (IF eguiFlag THEN <<Call("handle_input", n, 0)>> ELSE <<>>)

\* Mutant: only Outdated skips the frame, any other error falls into the Ok arm.
RedrawCalls_only_outdated(ev, n, eguiFlag) ==
    <<Call("update", n, 0), Call("get_current_texture", n, 0)>>
    \o (IF ev.acq # "Outdated"
        THEN <<Call("render", n, 0), Call("submit", n, ev.ret)>>
             \o (IF eguiFlag THEN <<Call("egui_draw", n, 0), Call("submit", n, 1)>> ELSE <<>>)
             \o <<Call("present", n, 0)>>
        ELSE <<>>)

\* Mutant: update is part of the Ok arm only.
RedrawCalls_update_in_ok(ev, n, eguiFlag) ==
    <<Call("get_current_texture", n, 0)>>
    \o (IF ev.acq = "Ok"
        THEN <<Call("update", n, 0), Call("render", n, 0), Call("submit", n, ev.ret)>>
             \o (IF eguiFlag THEN <<Call("egui_draw", n, 0), Call("submit", n, 1)>> ELSE <<>>)
             \o <<Call("present", n, 0)>>
        ELSE <<>>)

\* The calls of the Event::RedrawRequested arm, in program order.
RedrawCalls(ev, n, eguiFlag) ==
    <<Call("update", n, 0), Call("get_current_texture", n, 0)>>
    \o (IF ev.acq = "Ok"
        THEN <<Call("render", n, 0), Call("submit", n, ev.ret)>>
             \o (IF eguiFlag THEN <<Call("egui_draw", n, 0), Call("submit", n, 1)>> ELSE <<>>)
             \o <<Call("present", n, 0)>>
        ELSE <<>>)

\* Mutant: LoopDestroyed falls into the catch-all arm.
LoopDestroyedCalls_none(n) == <<>>

\* The calls of the Event::LoopDestroyed arm.
LoopDestroyedCalls(n) == <<Call("destroy", n, 0)>>

\* The event loop hands events to the closure while it runs; it stops
\* after LoopDestroyed.
Delivers ==
    /\ appPc = "running"
    /\ Len(received) < MaxEvents

\* The closure on Event::WindowEvent.
WindowEvent(ev) ==
    /\ Delivers
    /\ received' = Append(received, ev)
    /\ trace' = trace \o WindowEventCalls(ev, Len(received) + 1, esc, egui)
    /\ control_flow' = IF set_exit_called(ev, esc) THEN "Exit" ELSE control_flow
    /\ surface_config' = IF ev.kind = "Resized"
                         THEN resize_surface(surface_config, ev.size) ELSE surface_config
    /\ configured' = IF ev.kind = "Resized"
                     THEN resize_surface(surface_config, ev.size) ELSE configured
    /\ UNCHANGED <<esc, window, dim, gpu_builder, egui, appPc, built_config, gpuVars, texVars>>

CloseRequested == WindowEvent(CloseRequestedEv)
KeyboardInput(k, st) == WindowEvent(KeyboardInputEv(k, st))
Resized(size) == WindowEvent(ResizedEv(size))
OtherWindowEvent == WindowEvent(FocusedEv)

\* The closure on Event::MainEventsCleared.
MainEventsCleared ==
    /\ Delivers
    /\ received' = Append(received, MainEventsClearedEv)
    /\ trace' = Append(trace, Call("request_redraw", Len(received) + 1, 0))
    /\ UNCHANGED <<esc, window, dim, gpu_builder, egui, appPc, control_flow,
                   gpuVars, surfVars, texVars>>

\* The closure on Event::RedrawRequested.
RedrawRequested(acq, ret) ==
    /\ Delivers
    /\ received' = Append(received, RedrawRequestedEv(acq, ret))
    /\ trace' = trace \o RedrawCalls(RedrawRequestedEv(acq, ret), Len(received) + 1, egui)
    /\ UNCHANGED <<esc, window, dim, gpu_builder, egui, appPc, control_flow,
                   gpuVars, surfVars, texVars>>

\* The closure on Event::LoopDestroyed, which the event loop emits last and
\* only once exit was requested.
LoopDestroyed ==
    /\ Delivers
    /\ control_flow = "Exit"
    /\ received' = Append(received, LoopDestroyedEv)
    /\ trace' = trace \o LoopDestroyedCalls(Len(received) + 1)
    /\ appPc' = "destroyed"
    /\ UNCHANGED <<esc, window, dim, gpu_builder, egui, control_flow,
                   gpuVars, surfVars, texVars>>

\* The closure's catch-all arm.
OtherEvent ==
    /\ Delivers
    /\ received' = Append(received, ResumedEv)
    /\ UNCHANGED <<esc, window, dim, gpu_builder, egui, appPc, control_flow, trace,
                   gpuVars, surfVars, texVars>>

\* ---------------------------------------------------------------- Spec
\* The system the App is built on: one adapter at most, one capabilities answer.
AppAdapterLists == SeqsUpTo(Adapters, 1)
AppSurfaceCaps ==
    { [formats |-> <<"Bgra8Unorm", "Bgra8UnormSrgb">>, alpha_modes |-> <<"Opaque">>] }

GpuBuilderArgs ==
    {GpuBuilder_default, [GpuBuilder_default EXCEPT !.present_mode = "Mailbox"]}

Init ==
    /\ InitGpuVars
    /\ gpuPc = "idle"
    /\ InitSurfVars
    /\ esc = TRUE
    /\ window = None
    /\ dim = <<640, 360>>
    /\ gpu_builder = GpuBuilder_default
    /\ egui \in BOOLEAN
    /\ appPc = "builder"
    /\ control_flow = "Poll"
    /\ received = <<>>
    /\ trace = <<>>
    /\ InitTexIdle

Next ==
    \/ \E g \in GpuBuilderArgs : with_gpu(g)
    \/ \E d \in Sizes : with_dimension(d[1], d[2])
    \/ \E v \in BOOLEAN : with_esc(v)
    \/ \E ads \in AppAdapterLists, ws \in Sizes, caps \in AppSurfaceCaps,
          deviceOk \in BOOLEAN :
            AppBuilder_build(ads, ws, caps, deviceOk)
    \/ run
    \/ CloseRequested
    \/ \E k \in Keys, st \in ElementState : KeyboardInput(k, st)
    \/ \E size \in Sizes : Resized(size)
    \/ OtherWindowEvent
    \/ MainEventsCleared
    \/ \E r \in RedrawInputs : RedrawRequested(r[1], r[2])
    \/ LoopDestroyed
    \/ OtherEvent

Spec == Init /\ [][Next]_vars

\* ---------------------------------------------------------------- TextureBuilder
TextureFormat == {"R8Unorm", "Rgba8UnormSrgb", "Rgba16Float", "Depth24PlusStencil8"}

\* TextureFormat::block_size(None): the bytes of one texel, 0 standing for the
\* None a combined depth-stencil format answers when no aspect is given.
block_size(f) ==
    CASE f = "R8Unorm" -> 1
      [] f = "Rgba8UnormSrgb" -> 4
      [] f = "Rgba16Float" -> 8
      [] OTHER -> 0

TextureDescs == [size : Sizes, format : TextureFormat \ {"Depth24PlusStencil8"}]

\* impl Default for TextureBuilder (the fields that reach the texture).
TextureBuilder_default ==
    [format |-> "Rgba8UnormSrgb", texture_desc |-> None, data |-> 0]

with_format(f) ==
    /\ texPc = "builder"
    /\ tb' = [tb EXCEPT !.format = f]
    /\ UNCHANGED <<tex, created, writes, texPc, gpuVars, surfVars, appVars>>

with_texture_desc(td) ==
    /\ texPc = "builder"
    /\ tb' = [tb EXCEPT !.texture_desc = td]
    /\ UNCHANGED <<tex, created, writes, texPc, gpuVars, surfVars, appVars>>

\* with_data: data is modelled by its length.
with_data(len) ==
    /\ texPc = "builder"
    /\ tb' = [tb EXCEPT !.data = len]
    /\ UNCHANGED <<tex, created, writes, texPc, gpuVars, surfVars, appVars>>

\* The queue.write_texture calls Texture::upload_data makes for data of length len.
WriteTexture(t, len) ==
    IF len # 0
    THEN <<[len |-> len,
            bytes_per_row |-> t.size[1] * t.texel_size,
            rows_per_image |-> t.size[2],
            extent |-> t.size]>>
    ELSE <<>>

\* The descriptor build hands to device.create_texture.
CreatedDesc(self, dimv) ==
    IF self.texture_desc # None THEN self.texture_desc
    ELSE [size |-> dimv, format |-> self.format]

\* The Texture literal of build.
BuiltTexture(self, dimv) ==
    [size |-> dimv, texel_size |-> block_size(self.format)]

\* TextureBuilder::build; block_size(None).unwrap() panics after the texture
\* was created when the builder's format has no block size.
TextureBuilder_build(dimv) ==
    /\ texPc = "builder"
    /\ created' = CreatedDesc(tb, dimv)
    /\ IF block_size(tb.format) = 0
       THEN /\ texPc' = "panicked"
            /\ UNCHANGED <<tex, writes>>
       ELSE /\ texPc' = "built"
            /\ tex' = BuiltTexture(tb, dimv)
            /\ writes' = writes \o WriteTexture(BuiltTexture(tb, dimv), tb.data)
    /\ UNCHANGED <<tb, gpuVars, surfVars, appVars>>

\* Texture::upload_data called on the built texture.
upload_data(len) ==
    /\ texPc = "built"
    /\ Len(writes) < MaxData
    /\ writes' = writes \o WriteTexture(tex, len)
    /\ UNCHANGED <<tb, tex, created, texPc, gpuVars, surfVars, appVars>>

\* ---------------------------------------------------------------- SpecTex
InitTex ==
    /\ InitGpuVars
    /\ gpuPc = "idle"
    /\ InitSurfVars
    /\ InitAppIdle
    /\ tb = TextureBuilder_default
    /\ tex = None
    /\ created = None
    /\ writes = <<>>
    /\ texPc = "builder"

NextTex ==
    \/ \E f \in TextureFormat : with_format(f)
    \/ \E td \in TextureDescs : with_texture_desc(td)
    \/ \E len \in 0..MaxData : with_data(len)
    \/ \E d \in Sizes : TextureBuilder_build(d)
    \/ \E len \in 0..MaxData : upload_data(len)

SpecTex == InitTex /\ [][NextTex]_vars

\* ================================================================ claims
\* The adapter condition the claims state: type, backend, surface support.
Satisfies(a) ==
    /\ a.device_type = device_type
    /\ a.backend \in backends
    /\ a.surface_supported

\* C1: after build ran select_adapter, the result is the first enumerated
\* adapter with the builder's device type, a backend in the builder's set and
\* surface support; it is None exactly when no enumerated adapter is such.
C1_FirstMatch ==
    gpuPc \in {"built", "panicked"} =>
        /\ (adapter = None) <=> (\A i \in 1..Len(enumerated) : ~Satisfies(enumerated[i]))
        /\ adapter # None =>
              \E i \in 1..Len(enumerated) :
                  /\ enumerated[i] = adapter
                  /\ Satisfies(enumerated[i])
                  /\ \A j \in 1..(i - 1) : ~Satisfies(enumerated[j])

C1_Witness ==
    /\ gpuPc = "built"
    /\ Len(enumerated) = 2
    /\ Satisfies(enumerated[1]) /\ Satisfies(enumerated[2])
    /\ enumerated[1] # enumerated[2]
    /\ adapter = enumerated[1]

\* C2: once with_backend was called at least once, the chosen adapter has a
\* backend that was passed to with_backend and the device type last passed to
\* with_device (DiscreteGpu when with_device was never called).
C2_UserBackendsOnly ==
    (gpuPc \in {"built", "panicked"} /\ argBackends # {} /\ adapter # None) =>
        /\ adapter.backend \in argBackends
        /\ adapter.device_type = (IF argDevice = "none" THEN "DiscreteGpu" ELSE argDevice)

\* ---- helpers over the history of App::run
CallsOf(op) == SelectSeq(trace, LAMBDA c : c.op = op)
NsOf(op) == [i \in 1..Len(CallsOf(op)) |-> CallsOf(op)[i].n]
IndicesOfKinds(kinds) ==
    SelectSeq([i \in 1..Len(received) |-> i], LAMBDA i : received[i].kind \in kinds)
CalledAt(op, n) == \E i \in 1..Len(trace) : trace[i].op = op /\ trace[i].n = n

\* C3: every window event is handed to events exactly once, in arrival order,
\* after the loop's own exit request or surface resize for that event; no
\* other event reaches events.
C3_EventsPassThrough ==
    /\ NsOf("events") = IndicesOfKinds(WindowEventKinds)
    /\ \A j \in 1..Len(trace) :
          trace[j].op = "events" =>
              /\ \A i \in 1..Len(trace) :
                    (trace[i].n = trace[j].n /\ trace[i].op \in {"set_exit", "resize_surface"})
                        => i < j
              /\ received[trace[j].n].kind = "Resized" =>
                    \E i \in 1..(j - 1) : trace[i] = Call("resize_surface", trace[j].n, 0)
              /\ received[trace[j].n].kind = "CloseRequested" =>
                    \E i \in 1..(j - 1) : trace[i] = Call("set_exit", trace[j].n, 0)

C3_Witness ==
    /\ Len(received) = 3
    /\ received[1].kind = "CloseRequested"
    /\ received[2].kind = "MainEventsCleared"
    /\ received[3].kind = "Resized"
    /\ NsOf("events") = <<1, 3>>

\* C4: update runs exactly once per RedrawRequested, also when no frame could
\* be acquired; render runs at most once per RedrawRequested and after that
\* frame's update; no other event calls update or render.
C4_OneFramePerRedraw ==
    /\ NsOf("update") = IndicesOfKinds({"RedrawRequested"})
    /\ \A i \in 1..Len(trace) :
          trace[i].op = "render" =>
              /\ received[trace[i].n].kind = "RedrawRequested"
              /\ \E j \in 1..(i - 1) : trace[j] = Call("update", trace[i].n, 0)
              /\ \A j \in 1..Len(trace) :
                    (trace[j].op = "render" /\ trace[j].n = trace[i].n) => j = i

C4_Witness ==
    /\ Len(received) = 3
    /\ received[1].kind = "RedrawRequested" /\ received[1].acq = "Outdated"
    /\ received[2].kind = "KeyboardInput"
    /\ received[3].kind = "RedrawRequested" /\ received[3].acq = "Ok"
    /\ NsOf("update") = <<1, 3>>
    /\ NsOf("render") = <<3>>

\* C5: exit is requested for an event exactly when it is CloseRequested, or an
\* Escape key press while the App was built with esc = true.
C5_ExitRequests ==
    /\ \A n \in 1..Len(received) :
          CalledAt("set_exit", n) <=>
              \/ received[n].kind = "CloseRequested"
              \/ /\ received[n].kind = "KeyboardInput"
                 /\ received[n].key = "Escape"
                 /\ received[n].state = "Pressed"
                 /\ esc
    /\ (control_flow = "Exit") <=> (CallsOf("set_exit") # <<>>)

C5_Witness ==
    /\ ~esc
    /\ Len(received) = 3
    /\ received[1] = KeyboardInputEv("Escape", "Pressed")
    /\ received[2].kind = "RedrawRequested" /\ received[2].acq = "Timeout"
    /\ control_flow = "Poll"
    /\ received[3].kind = "Resized"

\* C6: create is the first call run makes and is made once; destroy is called
\* only for LoopDestroyed, once per LoopDestroyed, and no events, update or
\* render call follows it.
C6_Lifecycle ==
    /\ appPc \in {"builder", "built", "panicked"} => trace = <<>>
    /\ appPc \in {"running", "destroyed"} =>
          /\ trace[1] = Call("create", 0, 0)
          /\ Len(CallsOf("create")) = 1
    /\ NsOf("destroy") = IndicesOfKinds({"LoopDestroyed"})
    /\ \A i \in 1..Len(trace) :
          trace[i].op = "destroy" =>
              \A j \in (i + 1)..Len(trace) : trace[j].op \notin {"events", "update", "render"}

C6_Witness ==
    /\ appPc = "destroyed"
    /\ Len(received) = 3
    /\ received[1].kind = "CloseRequested"
    /\ received[2].kind = "RedrawRequested"
    /\ received[3].kind = "LoopDestroyed"
    /\ trace[Len(trace)] = Call("destroy", 3, 0)

\* The size the swapchain has to have: that of the latest Resized event, the
\* window's inner size at build time when there was none.
LatestSize ==
    LET rs == IndicesOfKinds({"Resized"})
    IN IF rs = <<>> THEN window ELSE received[rs[Len(rs)]].size

\* C7: surface_config's width and height are the latest Resized size (the
\* build-time window size before any Resized), the surface is configured with
\* surface_config, and the other fields are as GpuBuilder::build set them.
C7_SwapchainTracksWindow ==
    appPc \in {"built", "running", "destroyed"} =>
        /\ <<surface_config.width, surface_config.height>> = LatestSize
        /\ configured = surface_config
        /\ \A f \in {"format", "present_mode", "usage", "alpha_mode", "view_formats"} :
              surface_config[f] = built_config[f]

C7_Witness ==
    /\ Len(received) = 2
    /\ received[1].kind = "Resized"
    /\ received[2].kind = "Resized"
    /\ received[1].size # received[2].size
    /\ received[2].size # window
    /\ <<surface_config.width, surface_config.height>> = received[2].size

\* The calls a step added to the history.
NewCalls == SubSeq(trace', Len(trace) + 1, Len(trace'))

\* C8: every RedrawRequested tries to acquire a frame; when that fails the
\* step calls no render, submit or present, requests no exit and leaves the
\* surface configuration as it was.
C8_FailedFrameSkipped ==
    [][(Len(received') = Len(received) + 1
          /\ received'[Len(received')].kind = "RedrawRequested") =>
            /\ \E i \in 1..Len(NewCalls) :
                  NewCalls[i] = Call("get_current_texture", Len(received'), 0)
            /\ received'[Len(received')].acq # "Ok" =>
                  /\ \A i \in 1..Len(NewCalls) :
                        NewCalls[i].op \in {"update", "get_current_texture"}
                  /\ surface_config' = surface_config
                  /\ configured' = configured
                  /\ control_flow' = control_flow
                  /\ appPc' = appPc]_vars

C8_Witness ==
    /\ Len(received) = 3
    /\ received[1].kind = "RedrawRequested" /\ received[1].acq = "Timeout"
    /\ received[2].kind = "RedrawRequested" /\ received[2].acq = "Outdated"
    /\ received[3].kind = "RedrawRequested" /\ received[3].acq = "Ok"
    /\ NsOf("get_current_texture") = <<1, 2, 3>>
    /\ NsOf("present") = <<3>>

\* C9: the Texture build returns has the created texture's extent as size and
\* the block size of the created texture's format as texel_size, and every
\* write_texture call uses a row pitch and copy extent of the created texture.
C9_TextureDescribesCreated ==
    texPc = "built" =>
        /\ tex.size = created.size
        /\ tex.texel_size = block_size(created.format)
        /\ \A i \in 1..Len(writes) :
              /\ writes[i].bytes_per_row = created.size[1] * block_size(created.format)
              /\ writes[i].extent = created.size
====
